---- MODULE Spec2Model ----
(***************************************************************************)
(* DICE_ANALYZER (chinchiro dice duel): the roll classifier DiceResult,    *)
(* the per-side rolling protocol, the round resolver and the session loop  *)
(* of src/main.py.                                                         *)
(***************************************************************************)
EXTENDS Integers, Sequences, FiniteSets, TLC

VARIABLES
    dice,           \* classifier harness: the list handed to DiceResult(...)
    result,         \* classifier harness: the DiceResult built from dice
    pc,             \* position of the session inside Game.run / Game.play_round
    round,          \* Game.round
    running,        \* Game.running
    auto_bet,       \* Game.auto_bet (0 = manual mode)
    bankroll,       \* Player.bankroll
    bet,            \* play_round local: value returned by get_bet
    attempt,        \* loop index of player_roll / dealer_roll
    player_result,  \* play_round local: DiceResult or NoResult (None)
    dealer_result,  \* play_round local: DiceResult or NoResult (None)
    payout,         \* play_round local
    p_hist,         \* roles of the player's roll attempts of this round, in order
    d_hist,         \* roles of the dealer's roll attempts of this round, in order
    anim_log,       \* calls of animate_dice_roll of this round: <<side, is_last_reroll>>
    active,         \* sides whose animate_dice_roll call has not returned yet
    result_line,    \* the [RESULT] line play_round printed for this round
    is_last_reroll, \* animate_dice_roll argument
    apc,            \* position inside animate_dice_roll
    idx,            \* animate_dice_roll: loop index i of the reveal loop
    remaining,      \* animate_dice_roll: end_time - time.time(), in spin intervals
    confirmed_vals, \* animate_dice_roll local
    frame,          \* the line last written: the three slots between the brackets
    delays,         \* animate_dice_roll: the delay chosen before each confirmation
    tense           \* what is_tense_situation returned

animVars == <<is_last_reroll, apc, idx, remaining, confirmed_vals, frame, delays,
              tense>>

vars == <<dice, result, pc, round, running, auto_bet, bankroll, bet, attempt,
          player_result, dealer_result, payout, p_hist, d_hist, anim_log, active,
          result_line, animVars>>

gameVars == <<pc, round, running, auto_bet, bankroll, bet, attempt,
              player_result, dealer_result, payout, p_hist, d_hist, anim_log,
              active, result_line>>

-----------------------------------------------------------------------------
(* Bounds *)

MaxInitBankroll == 3    \* bankroll the session starts with is in 1..MaxInitBankroll
MaxBet == 2             \* largest amount typed at the bet prompt
MaxRounds == 2          \* rounds played before the exploration stops

-----------------------------------------------------------------------------
(* Dice logic *)

Faces == 1..6

HIFUMI == "HIFUMI"
SHIGORO == "SHIGORO"
PINZORO == "PINZORO"
ARASHI == "ARASHI"
ME == "ME"
MENASHI == "MENASHI"

\* roll_dice(): every list of three faces
Rolls == [1..3 -> Faces]

\* Python's None for a DiceResult | None
NoResult == [dice |-> <<>>, role |-> "NONE", value |-> 0, multiplier |-> 0]

sorted_unsorted(s) == s

\* sorted(dice): ascending order
sorted(s) == SortSeq(s, LAMBDA a, b : a < b)

evaluate_arashi_off(d) ==
    IF d = <<1, 2, 3>> THEN <<HIFUMI, 0, -2>>
    ELSE IF d = <<4, 5, 6>> THEN <<SHIGORO, 7, 2>>
    ELSE IF d = <<1, 1, 1>> THEN <<PINZORO, 10, 5>>
    ELSE IF d[1] = d[2] /\ d[2] = d[3] THEN <<ARASHI, d[1] + 5, 3>>
    ELSE IF d[1] = d[2] THEN <<ME, d[3], 1>>
    ELSE IF d[2] = d[3] THEN <<ME, d[1], 1>>
    ELSE <<MENASHI, 0, 0>>

evaluate_pair_face(d) ==
    IF d = <<1, 2, 3>> THEN <<HIFUMI, 0, -2>>
    ELSE IF d = <<4, 5, 6>> THEN <<SHIGORO, 7, 2>>
    ELSE IF d = <<1, 1, 1>> THEN <<PINZORO, 10, 5>>
    ELSE IF d[1] = d[2] /\ d[2] = d[3] THEN <<ARASHI, d[1] + 3, 3>>
    ELSE IF d[1] = d[2] THEN <<ME, d[3], 1>>
    ELSE IF d[2] = d[3] THEN <<ME, d[3], 1>>
    ELSE <<MENASHI, 0, 0>>

\* what _evaluate leaves when indexing past the end of the list raises
IndexError == <<"IndexError", 0, 0>>

\* DiceResult._evaluate on the sorted list d (1-based here, 0-based in Python).
\* d[0] == d[1] == d[2] reads d[2] only when d[0] == d[1]; the list
\* comparisons before it work for any length.
evaluate(d) ==
    IF d = <<1, 2, 3>> THEN <<HIFUMI, 0, -2>>
    ELSE IF d = <<4, 5, 6>> THEN <<SHIGORO, 7, 2>>
    ELSE IF d = <<1, 1, 1>> THEN <<PINZORO, 10, 5>>
    ELSE IF Len(d) < 2 THEN IndexError
    ELSE IF d[1] = d[2] /\ Len(d) < 3 THEN IndexError
    ELSE IF d[1] = d[2] /\ d[2] = d[3] THEN <<ARASHI, d[1] + 3, 3>>
    ELSE IF d[1] = d[2] THEN <<ME, d[3], 1>>
    ELSE IF Len(d) < 3 THEN IndexError
    ELSE IF d[2] = d[3] THEN <<ME, d[1], 1>>
    ELSE <<MENASHI, 0, 0>>

\* DiceResult.__init__
DiceResult(roll) ==
    LET d == sorted(roll)
        e == evaluate(d)
    IN  [dice |-> d, role |-> e[1], value |-> e[2], multiplier |-> e[3]]

\* DiceResult.is_valid
is_valid(r) == r.role # MENASHI

\* DiceResult.beats
beats(self, other) ==
    IF self.value > other.value THEN 1
    ELSE IF self.value < other.value THEN -1
    ELSE 0

AutoWinRoles == {SHIGORO, PINZORO, ARASHI}

\* every DiceResult a roll can produce
AllResults == {DiceResult(r) : r \in Rolls}

-----------------------------------------------------------------------------
(* Classifier harness: DiceResult applied to every list roll_dice can return *)

\* no [RESULT] line printed yet
NoLine == [side |-> "NONE", combination |-> "NONE", kind |-> "NONE"]

\* animate_dice_roll is not running
AnimIdle ==
    /\ is_last_reroll = FALSE
    /\ apc = "idle"
    /\ idx = 0
    /\ remaining = 0
    /\ confirmed_vals = <<>>
    /\ frame = <<>>
    /\ delays = <<>>
    /\ tense = FALSE

GameIdle ==
    /\ pc = "loop"
    /\ round = 0
    /\ running = TRUE
    /\ auto_bet = 0
    /\ bankroll = 1
    /\ bet = 0
    /\ attempt = 0
    /\ player_result = NoResult
    /\ dealer_result = NoResult
    /\ payout = 0
    /\ p_hist = <<>>
    /\ d_hist = <<>>
    /\ anim_log = <<>>
    /\ active = {}
    /\ result_line = NoLine

InitDice ==
    /\ dice \in Rolls
    /\ result = NoResult
    /\ GameIdle
    /\ AnimIdle

\* result = DiceResult(dice)
Classify ==
    /\ result = NoResult
    /\ result' = DiceResult(dice)
    /\ UNCHANGED <<dice, gameVars, animVars>>

\* dice = roll_dice() for the next attempt
Reroll ==
    /\ result # NoResult
    /\ dice' \in Rolls
    /\ result' = NoResult
    /\ UNCHANGED <<gameVars, animVars>>

NextDice == Classify \/ Reroll

SpecDice == InitDice /\ [][NextDice]_vars

-----------------------------------------------------------------------------
(* Constructor harness: DiceResult applied to lists roll_dice never returns *)

MaxListLen == 4     \* longest list handed to DiceResult
MaxDieValue == 7    \* values handed to DiceResult are in 0..MaxDieValue

\* lists of integers of any length up to MaxListLen
AnyLists == UNION {[1..n -> 0..MaxDieValue] : n \in 0..MaxListLen}

InitAny ==
    /\ dice \in AnyLists
    /\ result = NoResult
    /\ GameIdle
    /\ AnimIdle

NextAny == Classify

SpecAny == InitAny /\ [][NextAny]_vars

-----------------------------------------------------------------------------
(* Game: bet input *)

\* What the operator types at a prompt: q/quit/exit/0, something that is not
\* a number, "<n>", or "<n> auto"
Lines ==
    {[kind |-> "quit", n |-> 0], [kind |-> "nan", n |-> 0]}
    \cup {[kind |-> "num", n |-> k] : k \in 1..MaxBet}
    \cup {[kind |-> "auto", n |-> k] : k \in 0..MaxBet}

Min_first(a, b) == a

\* min(self.auto_bet, self.player.bankroll)
Min(a, b) == IF a < b THEN a ELSE b

Abs(x) == IF x < 0 THEN -x ELSE x

\* Game._parse_bet_input: the value returned (0 quit, -1 invalid, else the bet)
parse_bet_input(line, bank) ==
    IF line.kind = "quit" THEN 0
    ELSE IF line.kind = "nan" THEN -1
    ELSE IF 1 <= line.n /\ line.n <= bank THEN line.n
    ELSE -1

\* Game._parse_bet_input: the value it leaves in self.auto_bet
parse_auto_bet(line, bank, cur) ==
    IF line.kind = "auto" /\ 1 <= line.n /\ line.n <= bank THEN line.n ELSE cur

\* where play_round goes with the value get_bet returned
AfterBet(b) ==
    IF b = -1 THEN "get_bet"
    ELSE IF b = 0 THEN "confirm_quit"
    ELSE "player_roll"

-----------------------------------------------------------------------------
(* Game: session loop and play_round *)

Init ==
    /\ dice = <<>>
    /\ result = NoResult
    /\ pc = "loop"
    /\ round = 0
    /\ running = TRUE
    /\ auto_bet = 0
    /\ bankroll \in 1..MaxInitBankroll
    /\ bet = 0
    /\ attempt = 0
    /\ player_result = NoResult
    /\ dealer_result = NoResult
    /\ payout = 0
    /\ p_hist = <<>>
    /\ d_hist = <<>>
    /\ anim_log = <<>>
    /\ active = {}
    /\ result_line = NoLine
    /\ AnimIdle

\* run: while self.running -> play_round: self.round += 1, header, status
StartRound ==
    /\ pc = "loop"
    /\ running
    /\ round < MaxRounds
    /\ round' = round + 1
    /\ pc' = "get_bet"
    /\ bet' = 0
    /\ attempt' = 0
    /\ player_result' = NoResult
    /\ dealer_result' = NoResult
    /\ payout' = 0
    /\ p_hist' = <<>>
    /\ d_hist' = <<>>
    /\ anim_log' = <<>>
    /\ result_line' = NoLine
    /\ UNCHANGED <<animVars, active, dice, result, running, auto_bet, bankroll>>

\* run: the loop ends once self.running is false
SessionComplete ==
    /\ pc = "loop"
    /\ ~running
    /\ pc' = "complete"
    /\ UNCHANGED <<animVars, anim_log, active, result_line, dice, result, round, running, auto_bet, bankroll, bet, attempt,
                   player_result, dealer_result, payout, p_hist, d_hist>>

\* get_bet in manual mode: prompt, read a line, parse it
GetBetManual ==
    /\ pc = "get_bet"
    /\ auto_bet = 0
    /\ \E line \in Lines :
        /\ bet' = parse_bet_input(line, bankroll)
        /\ auto_bet' = parse_auto_bet(line, bankroll, auto_bet)
        /\ pc' = AfterBet(bet')
    /\ UNCHANGED <<animVars, anim_log, active, result_line, dice, result, round, running, bankroll, attempt,
                   player_result, dealer_result, payout, p_hist, d_hist>>

\* get_bet in auto mode, no key pressed within 2 seconds
GetBetAuto ==
    /\ pc = "get_bet"
    /\ auto_bet > 0
    /\ bet' = Min(auto_bet, bankroll)
    /\ pc' = AfterBet(bet')
    /\ UNCHANGED <<animVars, anim_log, active, result_line, dice, result, round, running, auto_bet, bankroll, attempt,
                   player_result, dealer_result, payout, p_hist, d_hist>>

\* get_bet in auto mode, interrupted: auto mode is switched off, then the
\* line typed (with the interrupt, or at the manual prompt that follows an
\* empty one) is parsed
GetBetInterrupt ==
    /\ pc = "get_bet"
    /\ auto_bet > 0
    /\ \E line \in Lines :
        /\ bet' = parse_bet_input(line, bankroll)
        /\ auto_bet' = parse_auto_bet(line, bankroll, 0)
        /\ pc' = AfterBet(bet')
    /\ UNCHANGED <<animVars, anim_log, active, result_line, dice, result, round, running, bankroll, attempt,
                   player_result, dealer_result, payout, p_hist, d_hist>>

\* play_round: bet == 0 -> _confirm_quit, then return either way
ConfirmQuit ==
    /\ pc = "confirm_quit"
    /\ \E quit \in BOOLEAN :
        running' = IF quit THEN FALSE ELSE running
    /\ pc' = "loop"
    /\ bet' = 0
    /\ UNCHANGED <<animVars, anim_log, active, result_line, dice, result, round, auto_bet, bankroll, attempt,
                   player_result, dealer_result, payout, p_hist, d_hist>>

-----------------------------------------------------------------------------
(* Game: rolling *)

MaxAttempts == 3

is_last_off_by_one(a) == (a = MaxAttempts)

\* player_roll / dealer_roll: is_last = (attempt == max_attempts - 1)
is_last(a) == (a = MaxAttempts - 1)

roll_step_no_exhaust(r, a) ==
    LET res == DiceResult(r)
    IN  IF is_valid(res) THEN <<TRUE, res>>
        ELSE <<FALSE, NoResult>>

\* one iteration of the loop of player_roll / dealer_roll on the roll r with
\* loop index a: <<finished, result returned>>
roll_step(r, a) ==
    LET res == DiceResult(r)
    IN  IF is_valid(res) THEN <<TRUE, res>>
        ELSE IF is_last(a) THEN <<TRUE, NoResult>>
        ELSE <<FALSE, NoResult>>

\* player_roll: one attempt
PlayerRoll ==
    /\ pc = "player_roll"
    /\ attempt < MaxAttempts
    /\ \E r \in Rolls :
        LET st == roll_step(r, attempt) IN
        /\ p_hist' = Append(p_hist, DiceResult(r).role)
        /\ IF st[1]
           THEN /\ player_result' = st[2]
                /\ pc' = "player_done"
                /\ attempt' = 0
           ELSE /\ player_result' = player_result
                /\ pc' = "player_roll"
                /\ attempt' = attempt + 1
    /\ anim_log' = Append(anim_log, <<"player", is_last(attempt)>>)
    /\ UNCHANGED <<animVars, active, result_line, dice, result, round, running, auto_bet, bankroll, bet,
                   dealer_result, payout, d_hist>>

\* dealer_roll: one attempt
DealerRoll ==
    /\ pc = "dealer_roll"
    /\ attempt < MaxAttempts
    /\ \E r \in Rolls :
        LET st == roll_step(r, attempt) IN
        /\ d_hist' = Append(d_hist, DiceResult(r).role)
        /\ IF st[1]
           THEN /\ dealer_result' = st[2]
                /\ pc' = "resolve"
                /\ attempt' = 0
           ELSE /\ dealer_result' = dealer_result
                /\ pc' = "dealer_roll"
                /\ attempt' = attempt + 1
    /\ anim_log' = Append(anim_log, <<"dealer", is_last(attempt)>>)
    /\ UNCHANGED <<animVars, active, result_line, dice, result, round, running, auto_bet, bankroll, bet,
                   player_result, payout, p_hist>>

-----------------------------------------------------------------------------
(* Game: resolution *)

resolve_round_no_forfeit(p, d, b) ==
    IF p.role = HIFUMI THEN -b * Abs(p.multiplier)
    ELSE IF p.role \in AutoWinRoles THEN b * p.multiplier
    ELSE IF d = NoResult THEN 0
    ELSE IF d.role = HIFUMI THEN b * 2
    ELSE IF d.role \in AutoWinRoles THEN -b * d.multiplier
    ELSE IF beats(p, d) > 0 THEN b * p.multiplier
    ELSE IF beats(p, d) < 0 THEN -b * d.multiplier
    ELSE 0

resolve_round_hifumi_mult(p, d, b) ==
    IF p.role = HIFUMI THEN -b * Abs(p.multiplier)
    ELSE IF p.role \in AutoWinRoles THEN b * p.multiplier
    ELSE IF d = NoResult THEN b * p.multiplier
    ELSE IF d.role = HIFUMI THEN b * Abs(p.multiplier)
    ELSE IF d.role \in AutoWinRoles THEN -b * d.multiplier
    ELSE IF beats(p, d) > 0 THEN b * p.multiplier
    ELSE IF beats(p, d) < 0 THEN -b * d.multiplier
    ELSE 0

resolve_round_player_mult(p, d, b) ==
    IF p.role = HIFUMI THEN -b * Abs(p.multiplier)
    ELSE IF p.role \in AutoWinRoles THEN b * p.multiplier
    ELSE IF d = NoResult THEN b * p.multiplier
    ELSE IF d.role = HIFUMI THEN b * 2
    ELSE IF d.role \in AutoWinRoles THEN -b * p.multiplier
    ELSE IF beats(p, d) > 0 THEN b * p.multiplier
    ELSE IF beats(p, d) < 0 THEN -b * d.multiplier
    ELSE 0

resolve_round_tie_wins(p, d, b) ==
    IF p.role = HIFUMI THEN -b * Abs(p.multiplier)
    ELSE IF p.role \in AutoWinRoles THEN b * p.multiplier
    ELSE IF d = NoResult THEN b * p.multiplier
    ELSE IF d.role = HIFUMI THEN b * 2
    ELSE IF d.role \in AutoWinRoles THEN -b * d.multiplier
    ELSE IF beats(p, d) >= 0 THEN b * p.multiplier
    ELSE IF beats(p, d) < 0 THEN -b * d.multiplier
    ELSE 0

\* Game.resolve_round(player_result, dealer_result, bet)
resolve_round(p, d, b) ==
    IF p.role = HIFUMI THEN -b * Abs(p.multiplier)
    ELSE IF p.role \in AutoWinRoles THEN b * p.multiplier
    ELSE IF d = NoResult THEN b * p.multiplier
    ELSE IF d.role = HIFUMI THEN b * 2
    ELSE IF d.role \in AutoWinRoles THEN -b * d.multiplier
    ELSE IF beats(p, d) > 0 THEN b * p.multiplier
    ELSE IF beats(p, d) < 0 THEN -b * d.multiplier
    ELSE 0

reaches_beats_past_none(p, d) ==
    /\ p.role # HIFUMI
    /\ p.role \notin AutoWinRoles
    /\ d.role # HIFUMI
    /\ d.role \notin AutoWinRoles

\* Game.resolve_round: the call reaches comparison = player_result.beats(
\* dealer_result), that is, none of the five returns before it is taken
reaches_beats(p, d) ==
    /\ p.role # HIFUMI
    /\ p.role \notin AutoWinRoles
    /\ d # NoResult
    /\ d.role # HIFUMI
    /\ d.role \notin AutoWinRoles

needs_dealer_autowin(p) == p # NoResult /\ p.role # HIFUMI

needs_dealer_exhausted(p) == p.role \notin ({HIFUMI} \cup AutoWinRoles)

\* play_round: the else branch of the if/elif chain on player_result, the
\* only one that calls dealer_roll
needs_dealer(p) ==
    /\ p # NoResult
    /\ p.role # HIFUMI
    /\ p.role \notin AutoWinRoles

short_payout_flat(p, b) ==
    IF p = NoResult THEN -b
    ELSE IF p.role = HIFUMI THEN -b
    ELSE b * p.multiplier

\* play_round: the payout of the three branches that end the round without
\* the dealer (no valid roll, auto lose, auto win)
short_payout(p, b) ==
    IF p = NoResult THEN -b
    ELSE IF p.role = HIFUMI THEN -b * Abs(p.multiplier)
    ELSE b * p.multiplier

\* play_round: the [RESULT] line of the three branches without the dealer:
\* NO_VALID_ROLL | DEBIT, format_result(player_result) | DEBIT or | CREDIT
short_line(p) ==
    IF p = NoResult
    THEN [side |-> "NONE", combination |-> "NONE", kind |-> "DEBIT"]
    ELSE IF p.role = HIFUMI
    THEN [side |-> "PLAYER", combination |-> p.role, kind |-> "DEBIT"]
    ELSE [side |-> "PLAYER", combination |-> p.role, kind |-> "CREDIT"]

resolve_line_draw_credit(p, d, pay) ==
    IF d # NoResult /\ d.role = HIFUMI
    THEN [side |-> "DEALER", combination |-> HIFUMI, kind |-> "CREDIT"]
    ELSE IF d # NoResult /\ d.role \in AutoWinRoles
    THEN [side |-> "DEALER", combination |-> d.role, kind |-> "DEBIT"]
    ELSE IF pay >= 0
    THEN [side |-> "PLAYER", combination |-> p.role, kind |-> "CREDIT"]
    ELSE IF pay < 0
    THEN [side |-> "DEALER", combination |-> d.role, kind |-> "DEBIT"]
    ELSE [side |-> "NONE", combination |-> "NONE", kind |-> "NO_CHANGE"]

\* play_round: the [RESULT] line of the branch with the dealer, the display
\* rule applied to the payout resolve_round returned
resolve_line(p, d, pay) ==
    IF d # NoResult /\ d.role = HIFUMI
    THEN [side |-> "DEALER", combination |-> HIFUMI, kind |-> "CREDIT"]
    ELSE IF d # NoResult /\ d.role \in AutoWinRoles
    THEN [side |-> "DEALER", combination |-> d.role, kind |-> "DEBIT"]
    ELSE IF pay > 0
    THEN [side |-> "PLAYER", combination |-> p.role, kind |-> "CREDIT"]
    ELSE IF pay < 0
    THEN [side |-> "DEALER", combination |-> d.role, kind |-> "DEBIT"]
    ELSE [side |-> "NONE", combination |-> "NONE", kind |-> "NO_CHANGE"]

\* play_round: after player_roll returned, a round that needs no dealer
PlayerAutoResolved ==
    /\ pc = "player_done"
    /\ ~needs_dealer(player_result)
    /\ payout' = short_payout(player_result, bet)
    /\ pc' = "update"
    /\ result_line' = short_line(player_result)
    /\ UNCHANGED <<animVars, anim_log, active, dice, result, round, running, auto_bet, bankroll, bet, attempt,
                   player_result, dealer_result, p_hist, d_hist>>

\* play_round: after player_roll returned, on to dealer_roll
PlayerNeedsDealer ==
    /\ pc = "player_done"
    /\ needs_dealer(player_result)
    /\ pc' = "dealer_roll"
    /\ UNCHANGED <<animVars, anim_log, active, result_line, dice, result, round, running, auto_bet, bankroll, bet, attempt,
                   player_result, dealer_result, payout, p_hist, d_hist>>

\* play_round: payout = self.resolve_round(player_result, dealer_result, bet)
Resolve ==
    /\ pc = "resolve"
    /\ payout' = resolve_round(player_result, dealer_result, bet)
    /\ pc' = "update"
    /\ result_line' = resolve_line(player_result, dealer_result, payout')
    /\ UNCHANGED <<animVars, anim_log, active, dice, result, round, running, auto_bet, bankroll, bet, attempt,
                   player_result, dealer_result, p_hist, d_hist>>

\* play_round: self.player.bankroll += payout, then the bankruptcy check;
\* the locals of the round go away with the return
UpdateBankroll ==
    /\ pc = "update"
    /\ bankroll' = bankroll + payout
    /\ running' = IF bankroll' <= 0 THEN FALSE ELSE running
    /\ pc' = "loop"
    /\ bet' = 0
    /\ attempt' = 0
    /\ player_result' = NoResult
    /\ dealer_result' = NoResult
    /\ payout' = 0
    /\ p_hist' = <<>>
    /\ d_hist' = <<>>
    /\ anim_log' = <<>>
    /\ result_line' = NoLine
    /\ UNCHANGED <<animVars, active, dice, result, round, auto_bet>>

Next ==
    \/ StartRound
    \/ SessionComplete
    \/ GetBetManual
    \/ GetBetAuto
    \/ GetBetInterrupt
    \/ ConfirmQuit
    \/ PlayerRoll
    \/ PlayerAutoResolved
    \/ PlayerNeedsDealer
    \/ DealerRoll
    \/ Resolve
    \/ UpdateBankroll

Spec == Init /\ [][Next]_vars

TypeOK ==
    /\ pc \in {"loop", "get_bet", "confirm_quit", "player_roll", "player_done",
               "dealer_roll", "resolve", "update", "complete"}
    /\ round \in 0..MaxRounds
    /\ running \in BOOLEAN
    /\ auto_bet \in 0..MaxBet
    /\ bankroll \in Int
    /\ bet \in -1..MaxBet
    /\ attempt \in 0..(MaxAttempts - 1)
    /\ player_result \in AllResults \cup {NoResult}
    /\ dealer_result \in AllResults \cup {NoResult}
    /\ payout \in Int
    /\ Len(p_hist) <= MaxAttempts
    /\ Len(d_hist) <= MaxAttempts

-----------------------------------------------------------------------------
(* One round from an accepted bet, with each roll attempt in two steps: the  *)
(* roll and the call of animate_dice_roll, then its return and the rest of   *)
(* the loop body                                                             *)

restVars == <<round, running, auto_bet, bankroll, bet, payout, result, result_line,
              apc, idx, remaining, confirmed_vals, frame, delays, tense>>

\* play_round right after get_bet returned a bet in 1..bankroll
InitRound ==
    /\ dice = <<>>
    /\ result = NoResult
    /\ pc = "player_roll"
    /\ round = 1
    /\ running = TRUE
    /\ auto_bet = 0
    /\ bankroll \in 1..MaxInitBankroll
    /\ bet \in 1..Min(bankroll, MaxBet)
    /\ attempt = 0
    /\ player_result = NoResult
    /\ dealer_result = NoResult
    /\ payout = 0
    /\ p_hist = <<>>
    /\ d_hist = <<>>
    /\ anim_log = <<>>
    /\ active = {}
    /\ result_line = NoLine
    /\ AnimIdle

\* player_roll: dice = roll_dice(); animate_dice_roll(dice, ..., is_last) begins
PlayerRollDice ==
    /\ pc = "player_roll"
    /\ attempt < MaxAttempts
    /\ dice' \in Rolls
    /\ is_last_reroll' = is_last(attempt)
    /\ anim_log' = Append(anim_log, <<"player", is_last(attempt)>>)
    /\ active' = active \cup {"player"}
    /\ pc' = "player_anim"
    /\ UNCHANGED <<restVars, attempt, player_result, dealer_result, p_hist, d_hist>>

\* player_roll: animate_dice_roll returned; result = DiceResult(dice) and the
\* rest of the loop body (dice is not read again: the next iteration assigns
\* it anew)
PlayerReveal ==
    /\ pc = "player_anim"
    /\ active' = active \ {"player"}
    /\ p_hist' = Append(p_hist, DiceResult(dice).role)
    /\ LET st == roll_step(dice, attempt) IN
        IF st[1]
        THEN /\ player_result' = st[2]
             /\ pc' = "player_done"
             /\ attempt' = 0
             /\ dice' = <<>>
        ELSE /\ player_result' = player_result
             /\ pc' = "player_roll"
             /\ attempt' = attempt + 1
             /\ dice' = <<>>
    /\ UNCHANGED <<restVars, is_last_reroll, anim_log, dealer_result, d_hist>>

\* dealer_roll: dice = roll_dice(); animate_dice_roll(dice, ..., is_last) begins
DealerRollDice ==
    /\ pc = "dealer_roll"
    /\ attempt < MaxAttempts
    /\ dice' \in Rolls
    /\ is_last_reroll' = is_last(attempt)
    /\ anim_log' = Append(anim_log, <<"dealer", is_last(attempt)>>)
    /\ active' = active \cup {"dealer"}
    /\ pc' = "dealer_anim"
    /\ UNCHANGED <<restVars, attempt, player_result, dealer_result, p_hist, d_hist>>

\* dealer_roll: animate_dice_roll returned; result = DiceResult(dice) and the
\* rest of the loop body
DealerReveal ==
    /\ pc = "dealer_anim"
    /\ active' = active \ {"dealer"}
    /\ d_hist' = Append(d_hist, DiceResult(dice).role)
    /\ LET st == roll_step(dice, attempt) IN
        IF st[1]
        THEN /\ dealer_result' = st[2]
             /\ pc' = "resolve"
             /\ attempt' = 0
             /\ dice' = <<>>
        ELSE /\ dealer_result' = dealer_result
             /\ pc' = "dealer_roll"
             /\ attempt' = attempt + 1
             /\ dice' = <<>>
    /\ UNCHANGED <<restVars, is_last_reroll, anim_log, player_result, p_hist>>

NextRound ==
    \/ PlayerRollDice
    \/ PlayerReveal
    \/ PlayerAutoResolved
    \/ PlayerNeedsDealer
    \/ DealerRollDice
    \/ DealerReveal
    \/ Resolve
    \/ UpdateBankroll

SpecRound == InitRound /\ [][NextRound]_vars

\* the clock advances, so every call of animate_dice_roll returns, and the
\* single thread of play_round keeps running
SpecRoundFair == SpecRound /\ WF_vars(NextRound)

-----------------------------------------------------------------------------
(* Reveal animation: animate_dice_roll, with time in milliseconds *)

DELAY_DICE_CONFIRM == 300
DELAY_DICE_LAST_NORMAL == 500
DELAY_DICE_LAST_TENSE == <<1500, 2500>>
DELAY_DICE_SPIN_INTERVAL == 50
DELAY_DICE_SPIN_DURATION == 1000

MaxSpinFace == 2    \* faces drawn for a spinning slot are in 1..MaxSpinFace
TenseSamples == 3   \* points of the tense range random.uniform is drawn from

\* the cosmetic draws of one frame: random.randint(1, 6) for each of n slots
SpinDraws(n) == [1..n -> 1..MaxSpinFace]

\* random.uniform(*DELAY_DICE_LAST_TENSE)
TenseDelays ==
    {DELAY_DICE_LAST_TENSE[1]
        + (k * (DELAY_DICE_LAST_TENSE[2] - DELAY_DICE_LAST_TENSE[1]))
            \div (TenseSamples - 1) : k \in 0..(TenseSamples - 1)}

\* f"{v:02d}"
fmt02(v) == IF v < 10 THEN "0" \o ToString(v) ELSE ToString(v)

is_tense_situation_ignore_last(dice_so_far, last) ==
    IF Len(dice_so_far) < 2 THEN FALSE
    ELSE LET d0 == dice_so_far[1]
             d1 == dice_so_far[2]
         IN  \/ d0 = d1
             \/ {d0, d1} \subseteq {4, 5, 6}
             \/ {d0, d1} \subseteq {1, 2, 3}

is_tense_situation_no_hifumi(dice_so_far, last) ==
    IF last THEN TRUE
    ELSE IF Len(dice_so_far) < 2 THEN FALSE
    ELSE LET d0 == dice_so_far[1]
             d1 == dice_so_far[2]
         IN  \/ d0 = d1
             \/ {d0, d1} \subseteq {4, 5, 6}

\* is_tense_situation(dice_so_far, is_last_reroll)
is_tense_situation(dice_so_far, last) ==
    IF last THEN TRUE
    ELSE IF Len(dice_so_far) < 2 THEN FALSE
    ELSE LET d0 == dice_so_far[1]
             d1 == dice_so_far[2]
         IN  \/ d0 = d1
             \/ {d0, d1} \subseteq {4, 5, 6}
             \/ {d0, d1} \subseteq {1, 2, 3}

\* s[:2]
FirstTwo(s) == SubSeq(s, 1, Min(2, Len(s)))

\* confirmed_strs: f"{val:02d}" of each confirmed value
confirmed_strs(cv) == [k \in 1..Len(cv) |-> fmt02(cv[k])]

\* phase 1: the three slots of a frame, all spinning, drawn as c
spin_all_frame(c) == [k \in 1..3 |-> fmt02(c[k])]

confirm_delays_peek(i, val, cv, last) ==
    IF i = 2
    THEN IF is_tense_situation(<<cv[2], val>>, last)
         THEN TenseDelays
         ELSE {DELAY_DICE_LAST_NORMAL}
    ELSE {DELAY_DICE_CONFIRM}

\* phase 2: the delays the loop body may choose before confirming die i
\* (val = final_dice[i] is bound by the for loop at that point)
confirm_delays(i, val, cv, last) ==
    IF i = 2
    THEN IF is_tense_situation(FirstTwo(cv), last)
         THEN TenseDelays
         ELSE {DELAY_DICE_LAST_NORMAL}
    ELSE {DELAY_DICE_CONFIRM}

\* phase 2: a frame written during the delay: the confirmed slots, then the
\* remaining_before slots spinning, drawn as c
spin_frame(val, cv, c) ==
    confirmed_strs(cv) \o [k \in 1..(3 - Len(cv)) |-> fmt02(c[k])]

confirm_frame_spinning(val, cv) ==
    confirmed_strs(Append(cv, val)) \o [k \in 1..(3 - Len(cv) - 1) |-> fmt02(val)]

\* phase 2: the frame written when die i is confirmed: the confirmed slots
\* with val appended, then remaining_after masked slots
confirm_frame(val, cv) ==
    confirmed_strs(Append(cv, val)) \o [k \in 1..(3 - Len(cv) - 1) |-> "##"]

\* time.sleep(DELAY_DICE_SPIN_INTERVAL): what is left until end_time
after_sleep(rem) ==
    IF rem > DELAY_DICE_SPIN_INTERVAL THEN rem - DELAY_DICE_SPIN_INTERVAL ELSE 0

\* animate_dice_roll(dice, prefix, is_last_reroll) is about to be called
InitAnim ==
    /\ dice \in Rolls
    /\ is_last_reroll \in BOOLEAN
    /\ result = NoResult
    /\ GameIdle
    /\ apc = "idle"
    /\ idx = 0
    /\ remaining = 0
    /\ confirmed_vals = <<>>
    /\ frame = <<>>
    /\ delays = <<>>
    /\ tense = FALSE

\* end_time = time.time() + DELAY_DICE_SPIN_DURATION
AnimBegin ==
    /\ apc = "idle"
    /\ remaining' = DELAY_DICE_SPIN_DURATION
    /\ apc' = "spin_all"
    /\ UNCHANGED <<dice, result, gameVars, is_last_reroll, idx, confirmed_vals,
                   frame, delays, tense>>

\* phase 1 loop body: write a frame with three random slots, sleep
SpinAll ==
    /\ apc = "spin_all"
    /\ remaining > 0
    /\ \E c \in SpinDraws(3) : frame' = spin_all_frame(c)
    /\ remaining' = after_sleep(remaining)
    /\ UNCHANGED <<dice, result, gameVars, is_last_reroll, apc, idx,
                   confirmed_vals, delays, tense>>

\* phase 1 is over: confirmed_vals = [], the for loop starts at i = 0
SpinAllEnd ==
    /\ apc = "spin_all"
    /\ remaining = 0
    /\ confirmed_vals' = <<>>
    /\ idx' = 0
    /\ apc' = "choose_delay"
    /\ UNCHANGED <<dice, result, gameVars, is_last_reroll, remaining, frame,
                   delays, tense>>

\* phase 2 loop body, first part: the delay before confirming die idx, and
\* end_time = time.time() + delay
ChooseDelay ==
    /\ apc = "choose_delay"
    /\ idx < 3
    /\ tense' = IF idx = 2
                THEN is_tense_situation(FirstTwo(confirmed_vals), is_last_reroll)
                ELSE tense
    /\ \E delay \in confirm_delays(idx, dice[idx + 1], confirmed_vals,
                                   is_last_reroll) :
        /\ delays' = Append(delays, delay)
        /\ remaining' = delay
    /\ apc' = "spin"
    /\ UNCHANGED <<dice, result, gameVars, is_last_reroll, idx, confirmed_vals,
                   frame>>

\* phase 2 inner loop body: write a frame with the remaining slots spinning,
\* sleep
Spin ==
    /\ apc = "spin"
    /\ remaining > 0
    /\ \E c \in SpinDraws(3 - Len(confirmed_vals)) :
        frame' = spin_frame(dice[idx + 1], confirmed_vals, c)
    /\ remaining' = after_sleep(remaining)
    /\ UNCHANGED <<dice, result, gameVars, is_last_reroll, apc, idx,
                   confirmed_vals, delays, tense>>

\* phase 2 loop body, last part: confirm die idx and write the confirmed state
Confirm ==
    /\ apc = "spin"
    /\ remaining = 0
    /\ confirmed_vals' = Append(confirmed_vals, dice[idx + 1])
    /\ frame' = confirm_frame(dice[idx + 1], confirmed_vals)
    /\ idx' = idx + 1
    /\ apc' = IF idx + 1 = 3 THEN "done" ELSE "choose_delay"
    /\ UNCHANGED <<dice, result, gameVars, is_last_reroll, remaining, delays,
                   tense>>

NextAnim ==
    \/ AnimBegin
    \/ SpinAll
    \/ SpinAllEnd
    \/ ChooseDelay
    \/ Spin
    \/ Confirm

SpecAnim == InitAnim /\ [][NextAnim]_vars

-----------------------------------------------------------------------------
(* Tension harness: is_tense_situation applied to 0, 1 or 2 fixed dice *)

\* the lists of at most two fixed dice
FixedDice == UNION {[1..n -> Faces] : n \in 0..2}

InitTense ==
    /\ dice = <<>>
    /\ result = NoResult
    /\ GameIdle
    /\ confirmed_vals \in FixedDice
    /\ is_last_reroll \in BOOLEAN
    /\ apc = "idle"
    /\ idx = 0
    /\ remaining = 0
    /\ frame = <<>>
    /\ delays = <<>>
    /\ tense = FALSE

\* tense = is_tense_situation(confirmed_vals, is_last_reroll)
EvalTense ==
    /\ apc = "idle"
    /\ tense' = is_tense_situation(confirmed_vals, is_last_reroll)
    /\ apc' = "evaluated"
    /\ UNCHANGED <<dice, result, gameVars, is_last_reroll, idx, remaining,
                   confirmed_vals, frame, delays>>

NextTense == EvalTense

SpecTense == InitTense /\ [][NextTense]_vars

-----------------------------------------------------------------------------
(* Properties of the classifier, checked under SpecDice *)

\* the set of faces showing in the list handed to DiceResult
FacesOf(roll) == {roll[i] : i \in 1..3}

\* how many of the three dice show face f
CountOf(roll, f) == Cardinality({i \in 1..3 : roll[i] = f})

\* the face of the die that matches no other die (rolls with exactly one pair)
Unmatched(roll) == CHOOSE f \in FacesOf(roll) : CountOf(roll, f) = 1

AllDistinct(roll) == Cardinality(FacesOf(roll)) = 3

Straight(roll) == FacesOf(roll) \in {{1, 2, 3}, {4, 5, 6}}

\* C1: every roll of three faces is classified by first match:
\* 1-2-3 is (HIFUMI, 0, -2); 4-5-6 is (SHIGORO, 7, 2); 1-1-1 is
\* (PINZORO, 10, 5); any other triple d-d-d is (ARASHI, d+3, 3) with a value
\* in 4..9 that grows with d and stays below PINZORO's 10; exactly one pair
\* is (ME, unmatched face, 1); anything else is (MENASHI, 0, 0), the only
\* classification that is not valid.
C1_Classification ==
    result # NoResult =>
        LET f == FacesOf(dice)
            expected ==
                IF f = {1, 2, 3} THEN <<HIFUMI, 0, -2>>
                ELSE IF f = {4, 5, 6} THEN <<SHIGORO, 7, 2>>
                ELSE IF f = {1} THEN <<PINZORO, 10, 5>>
                ELSE IF Cardinality(f) = 1 THEN <<ARASHI, dice[1] + 3, 3>>
                ELSE IF Cardinality(f) = 2 THEN <<ME, Unmatched(dice), 1>>
                ELSE <<MENASHI, 0, 0>>
        IN  /\ <<result.role, result.value, result.multiplier>> = expected
            /\ result.role = ARASHI =>
                  /\ result.value \in 4..9
                  /\ result.value < DiceResult(<<1, 1, 1>>).value
                  /\ \A e \in Faces \ {1} :
                        e < dice[1] =>
                            DiceResult(<<e, e, e>>).value < result.value
            /\ is_valid(result) = (~AllDistinct(dice) \/ Straight(dice))
            /\ ~is_valid(result) = (expected = <<MENASHI, 0, 0>>)

C1_Witness ==
    /\ result # NoResult
    /\ dice = <<6, 6, 6>>
    /\ result.role = ARASHI
    /\ result.value = 9

\* C2 as stated: a roll with three distinct faces other than 1-2-3 and 4-5-6
\* is ME with multiplier 1 and one of its faces as value.
C2_Original ==
    (result # NoResult /\ AllDistinct(dice) /\ ~Straight(dice)) =>
        /\ result.role = ME
        /\ result.multiplier = 1
        /\ result.value \in FacesOf(dice)

\* C2 amended: a roll with exactly two equal faces is ME, its value is the
\* unmatched face and its multiplier is 1; a roll with three distinct faces
\* other than 1-2-3 and 4-5-6 (such as 2-3-5) is MENASHI with value 0 and
\* multiplier 0, never ME.
C2_PairIsMe ==
    result # NoResult =>
        /\ Cardinality(FacesOf(dice)) = 2 =>
              /\ result.role = ME
              /\ result.value = Unmatched(dice)
              /\ result.multiplier = 1
        /\ (AllDistinct(dice) /\ ~Straight(dice)) =>
              /\ result.role = MENASHI
              /\ result.value = 0
              /\ result.multiplier = 0
        /\ DiceResult(<<2, 3, 5>>).role = MENASHI

C2_Witness ==
    /\ result # NoResult
    /\ dice = <<5, 3, 5>>
    /\ result.role = ME
    /\ result.value = 3

\* the list roll with its dice rearranged by the permutation q of 1..3
Permuted(roll, q) == [i \in 1..3 |-> roll[q[i]]]

\* C3: every rearrangement of the three dice of a roll gets the same role,
\* value and multiplier and the same stored dice, which are the roll in
\* ascending order.
C3_SortInvariant ==
    result # NoResult =>
        /\ \A q \in Permutations(1..3) : DiceResult(Permuted(dice, q)) = result
        /\ result.dice[1] <= result.dice[2]
        /\ result.dice[2] <= result.dice[3]
        /\ \A f \in Faces : CountOf(result.dice, f) = CountOf(dice, f)

C3_Witness ==
    /\ result # NoResult
    /\ dice = <<3, 1, 2>>
    /\ result.dice = <<1, 2, 3>>
    /\ result.role = HIFUMI

-----------------------------------------------------------------------------
(* Properties of the round, checked under Spec *)

\* the round has a payout: play_round is about to update the bankroll
RoundResolved == pc = "update"

AllMenashi(hist) ==
    /\ Len(hist) = MaxAttempts
    /\ \A i \in 1..Len(hist) : hist[i] = MENASHI

\* the ME results a side can hold with comparison value v
MeResults(v) == {r \in AllResults : r.role = ME /\ r.value = v}

\* whatever the dealer could end up with
DealerOutcomes == {r \in AllResults : is_valid(r)} \cup {NoResult}

\* C4: with an accepted bet and a player HIFUMI the payout is -2*bet, it is
\* -2*bet whatever the dealer could have rolled, and the dealer makes no roll
\* attempt in that round.
C4_PlayerHifumi ==
    (bet >= 1 /\ player_result.role = HIFUMI) =>
        /\ d_hist = <<>>
        /\ dealer_result = NoResult
        /\ pc \notin {"dealer_roll", "resolve"}
        /\ RoundResolved => payout = -2 * bet
        /\ \A d \in DealerOutcomes :
              resolve_round(player_result, d, bet) = -2 * bet

C4_Witness ==
    /\ RoundResolved
    /\ bet = 2
    /\ player_result.role = HIFUMI
    /\ payout = -4

\* C5: with an accepted bet and a player SHIGORO, PINZORO or ARASHI the
\* payout is +bet times the player's multiplier (2, 5, 3), e.g. +500 for a
\* bet of 100 on 1-1-1, and the dealer makes no roll attempt in that round.
C5_PlayerAutoWin ==
    /\ (bet >= 1 /\ player_result.role \in AutoWinRoles) =>
        /\ d_hist = <<>>
        /\ dealer_result = NoResult
        /\ pc \notin {"dealer_roll", "resolve"}
        /\ player_result.multiplier =
              (CASE player_result.role = SHIGORO -> 2
                 [] player_result.role = PINZORO -> 5
                 [] player_result.role = ARASHI -> 3)
        /\ RoundResolved => payout = bet * player_result.multiplier
    /\ short_payout(DiceResult(<<1, 1, 1>>), 100) = 500

C5_Witness ==
    /\ RoundResolved
    /\ bet = 2
    /\ player_result.role = PINZORO
    /\ payout = 10
    /\ d_hist = <<>>

\* C6: when all three player attempts of a round are MENASHI the player has
\* no result, the payout is -bet and the dealer makes no roll attempt.
C6_PlayerExhausted ==
    AllMenashi(p_hist) =>
        /\ player_result = NoResult
        /\ d_hist = <<>>
        /\ dealer_result = NoResult
        /\ pc \notin {"dealer_roll", "resolve"}
        /\ RoundResolved => payout = -bet

C6_Witness ==
    /\ RoundResolved
    /\ AllMenashi(p_hist)
    /\ bet = 2
    /\ payout = -2

\* C7: when the player holds ME and all three dealer attempts are MENASHI
\* the payout is +bet * player.multiplier, which is +bet.
C7_DealerExhausted ==
    (RoundResolved /\ player_result.role = ME /\ AllMenashi(d_hist)) =>
        /\ dealer_result = NoResult
        /\ payout = bet * player_result.multiplier
        /\ payout = bet

C7_Witness ==
    /\ RoundResolved
    /\ player_result.role = ME
    /\ AllMenashi(d_hist)
    /\ bet = 2
    /\ payout = 2

\* C8: a dealer HIFUMI only occurs against a player ME, and it pays +2*bet
\* for every ME comparison value 1..6 of the player.
C8_DealerHifumi ==
    dealer_result.role = HIFUMI =>
        /\ player_result.role = ME
        /\ RoundResolved => payout = 2 * bet
        /\ \A v \in Faces : \A p \in MeResults(v) :
              resolve_round(p, dealer_result, bet) = 2 * bet

C8_Witness ==
    /\ RoundResolved
    /\ dealer_result.role = HIFUMI
    /\ player_result.role = ME
    /\ bet = 2
    /\ payout = 4

\* C9: a player ME against a dealer SHIGORO, PINZORO or ARASHI pays -bet
\* times the dealer's multiplier (-2*bet, -5*bet, -3*bet), whatever the
\* player's ME value.
C9_DealerAutoWin ==
    (RoundResolved /\ player_result.role = ME
        /\ dealer_result.role \in AutoWinRoles) =>
        /\ payout = -bet * dealer_result.multiplier
        /\ payout =
              (CASE dealer_result.role = SHIGORO -> -2 * bet
                 [] dealer_result.role = PINZORO -> -5 * bet
                 [] dealer_result.role = ARASHI -> -3 * bet)
        /\ \A v \in Faces : \A p \in MeResults(v) :
              resolve_round(p, dealer_result, bet) = payout

C9_Witness ==
    /\ RoundResolved
    /\ player_result.role = ME
    /\ dealer_result.role = ARASHI
    /\ bet = 2
    /\ payout = -6

\* C10: ME against ME pays +bet when the player's value is strictly greater,
\* -bet when it is strictly less and 0 when the values are equal; a bet of 50
\* on 3-3-6 against 4-4-2 pays +50.
C10_MeVersusMe ==
    /\ (RoundResolved /\ player_result.role = ME /\ dealer_result.role = ME) =>
          payout =
              (IF player_result.value > dealer_result.value THEN bet
               ELSE IF player_result.value < dealer_result.value THEN -bet
               ELSE 0)
    /\ resolve_round(DiceResult(<<3, 3, 6>>), DiceResult(<<4, 4, 2>>), 50) = 50

C10_Witness ==
    /\ RoundResolved
    /\ player_result.role = ME
    /\ dealer_result.role = ME
    /\ player_result.value = dealer_result.value
    /\ player_result.dice # dealer_result.dice
    /\ bet = 2
    /\ payout = 0

-----------------------------------------------------------------------------
(* Properties of the rolling protocol, checked under SpecRound *)

\* the calls of animate_dice_roll made for one side, in order
SideLog(side) == SelectSeq(anim_log, LAMBDA e : e[1] = side)

\* player_roll has returned
PlayerFinished == pc \in {"player_done", "dealer_roll", "dealer_anim", "resolve", "update"}

\* dealer_roll was called and has returned
DealerFinished == pc = "resolve" \/ (pc = "update" /\ SideLog("dealer") # <<>>)

\* the attempts hist of one side, with n calls of the animation so far
ProtocolOK(hist, log, animating) ==
    /\ Len(hist) <= MaxAttempts
    /\ \A k \in 1..Len(hist) : k < Len(hist) => hist[k] = MENASHI
    /\ Len(log) = Len(hist) + (IF animating THEN 1 ELSE 0)
    /\ \A k \in 1..Len(log) : log[k][2] = (k = 3)

\* a side that has finished rolling with attempts hist and result res
FinishedOK(hist, res) ==
    /\ Len(hist) >= 1
    /\ (res = NoResult) = AllMenashi(hist)
    /\ res # NoResult =>
          /\ res.role = hist[Len(hist)]
          /\ res.role # MENASHI

\* C11: each side makes 1 to 3 roll attempts, attempt k+1 only after attempts
\* 1..k were all MENASHI; its result is the classification of the first valid
\* attempt and no attempt follows it; it has no result exactly when all three
\* attempts were MENASHI; animate_dice_roll is called once per attempt, with
\* is_last_reroll true exactly on attempt 3.
C11_RollingProtocol ==
    /\ [](pc # "loop" =>
            /\ ProtocolOK(p_hist, SideLog("player"), pc = "player_anim")
            /\ ProtocolOK(d_hist, SideLog("dealer"), pc = "dealer_anim")
            /\ PlayerFinished => FinishedOK(p_hist, player_result)
            /\ DealerFinished => FinishedOK(d_hist, dealer_result)
            /\ AllMenashi(p_hist) => (PlayerFinished /\ player_result = NoResult)
            /\ AllMenashi(d_hist) => (DealerFinished /\ dealer_result = NoResult))
    /\ [][/\ (pc = "player_anim" /\ is_valid(DiceResult(dice))) =>
                (player_result' = DiceResult(dice) /\ pc' = "player_done")
          /\ (pc = "dealer_anim" /\ is_valid(DiceResult(dice))) =>
                (dealer_result' = DiceResult(dice) /\ pc' = "resolve")
          /\ (PlayerFinished /\ pc' # "loop") =>
                (p_hist' = p_hist /\ player_result' = player_result)
          /\ (DealerFinished /\ pc' # "loop") =>
                (d_hist' = d_hist /\ dealer_result' = dealer_result)]_vars

C11_Witness ==
    /\ pc = "resolve"
    /\ p_hist = <<MENASHI, MENASHI, ME>>
    /\ AllMenashi(d_hist)
    /\ dealer_result = NoResult
    /\ anim_log = <<<<"player", FALSE>>, <<"player", FALSE>>, <<"player", TRUE>>,
                    <<"dealer", FALSE>>, <<"dealer", FALSE>>, <<"dealer", TRUE>>>>

\* C16: the first dealer attempt and its animation start only once the
\* player's result is final and is ME; every player attempt comes before
\* every dealer attempt and none comes after one; at most one reveal
\* animation is in progress at any moment.
C16_TurnStrict ==
    /\ [](/\ Cardinality(active) <= 1
          /\ (pc = "player_anim") = ("player" \in active)
          /\ (pc = "dealer_anim") = ("dealer" \in active)
          /\ (SideLog("dealer") # <<>> /\ pc # "loop") =>
                (PlayerFinished /\ player_result.role = ME)
          /\ \A i, j \in 1..Len(anim_log) :
                (i < j /\ anim_log[i][1] = "dealer") => anim_log[j][1] = "dealer")
    /\ [][/\ (pc' = "dealer_anim" /\ pc # "dealer_anim") =>
                (active = {} /\ player_result.role = ME
                    /\ player_result' = player_result)
          /\ (pc' = "player_anim" /\ pc # "player_anim") =>
                (active = {} /\ d_hist = <<>> /\ SideLog("dealer") = <<>>)]_vars

C16_Witness ==
    /\ pc = "dealer_anim"
    /\ active = {"dealer"}
    /\ player_result.role = ME
    /\ Len(p_hist) = 2
    /\ Len(d_hist) = 1

\* C19: a round with an accepted bet reaches the end of play_round, with at
\* most 3 player and 3 dealer attempts, and the bankroll changes exactly once,
\* by the payout, given that every animation returns.
C19_RoundTerminates ==
    /\ (pc = "player_roll" /\ bet >= 1) ~> (pc = "loop")
    /\ [](/\ Len(p_hist) <= 3
          /\ Len(d_hist) <= 3
          /\ Len(anim_log) <= 6)
    /\ [][/\ pc = "update" => (bankroll' = bankroll + payout /\ pc' = "loop")
          /\ pc # "update" => bankroll' = bankroll
          /\ pc' = "loop" => pc = "update"]_vars

C19_Witness ==
    /\ pc = "update"
    /\ Len(p_hist) = 3
    /\ Len(d_hist) = 3
    /\ Len(anim_log) = 6
    /\ dealer_result.role = ME
    /\ payout = -bet

-----------------------------------------------------------------------------
(* Properties of the result line and of the bets, checked under Spec *)

\* the side and combination of the resolution branch that fixed the payout
Determining(p, d) ==
    IF p = NoResult THEN <<"NONE", "NONE">>
    ELSE IF p.role \in ({HIFUMI} \cup AutoWinRoles) THEN <<"PLAYER", p.role>>
    ELSE IF d = NoResult THEN <<"PLAYER", p.role>>
    ELSE IF d.role \in ({HIFUMI} \cup AutoWinRoles) THEN <<"DEALER", d.role>>
    ELSE IF p.value > d.value THEN <<"PLAYER", p.role>>
    ELSE IF p.value < d.value THEN <<"DEALER", d.role>>
    ELSE <<"NONE", "NONE">>

\* C15: the [RESULT] line names the side and combination of the branch that
\* fixed the payout (none on a draw or when the player has no valid roll),
\* and it says CREDIT exactly when payout > 0, DEBIT exactly when payout < 0
\* and NO_CHANGE exactly when payout = 0.
C15_ResultLine ==
    RoundResolved =>
        /\ <<result_line.side, result_line.combination>> =
              Determining(player_result, dealer_result)
        /\ (result_line.kind = "CREDIT") = (payout > 0)
        /\ (result_line.kind = "DEBIT") = (payout < 0)
        /\ (result_line.kind = "NO_CHANGE") = (payout = 0)

C15_Witness ==
    /\ RoundResolved
    /\ player_result.role = ME
    /\ dealer_result.role = ME
    /\ result_line = [side |-> "DEALER", combination |-> ME, kind |-> "DEBIT"]
    /\ payout = -bet

\* a bet has been accepted and the round is past get_bet
Rolling == pc \in {"player_roll", "player_done", "dealer_roll", "resolve", "update"}

\* C20: a round only begins with a bankroll of at least 1; every bet that
\* reaches the rolling phase is in 1..bankroll, an auto bet being
\* min(auto_bet, bankroll); once a round leaves the bankroll at 0 or below the
\* session stops running and no further round begins.
C20_BetWithinBankroll ==
    /\ [](/\ pc \in {"get_bet", "confirm_quit"} => bankroll >= 1
          /\ Rolling => (1 <= bet /\ bet <= bankroll)
          /\ (pc \in {"loop", "complete"} /\ bankroll <= 0) => ~running)
    /\ [][/\ (pc = "get_bet" /\ pc' = "player_roll" /\ auto_bet > 0
                /\ auto_bet' = auto_bet) => bet' = Min(auto_bet, bankroll)
          /\ (pc = "update" /\ bankroll + payout <= 0) => ~running'
          /\ pc' = "get_bet" => (running /\ bankroll >= 1)]_vars

C20_Witness ==
    /\ pc = "player_roll"
    /\ round = 2
    /\ auto_bet = 2
    /\ bankroll = 1
    /\ bet = 1

-----------------------------------------------------------------------------
(* Properties of the constructor on malformed rolls, checked under SpecAny *)

\* a roll that is not three faces in 1..6
Malformed(roll) == Len(roll) # 3 \/ \E i \in 1..Len(roll) : roll[i] \notin Faces

\* C14: DiceResult built from a malformed roll (length other than 3, or a
\* value outside 1..6) fails with an error; no role, value and multiplier
\* come out of it.
C14_MalformedRejected ==
    (result # NoResult /\ Malformed(dice)) => result.role = "IndexError"

-----------------------------------------------------------------------------
(* Properties of the reveal animation, checked under SpecAnim *)

\* the first two dice d0, d1 call for suspense
TenseCase(d0, d1, last) ==
    \/ last
    \/ d0 = d1
    \/ (d0 \in 4..6 /\ d1 \in 4..6)
    \/ (d0 \in 1..3 /\ d1 \in 1..3)

\* C12: the delay before the third die is in the tense range 1.5s..2.5s
\* exactly when the attempt is the final one or the first two confirmed dice
\* are equal, both in 4..6 or both in 1..3, and is the normal 0.5s otherwise;
\* the delays before dice 0 and 1 are always 0.3s.  On a non-final attempt
\* with the first two dice in 4..6 the third delay is never the normal one.
C12_RevealDelays ==
    /\ Len(delays) >= 1 => delays[1] = 300
    /\ Len(delays) >= 2 => delays[2] = 300
    /\ Len(delays) = 3 =>
          /\ (delays[3] \in 1500..2500) = TenseCase(dice[1], dice[2], is_last_reroll)
          /\ ~TenseCase(dice[1], dice[2], is_last_reroll) => delays[3] = 500
          /\ (~is_last_reroll /\ dice[1] \in 4..6 /\ dice[2] \in 4..6) =>
                delays[3] # 500
          /\ confirmed_vals = <<dice[1], dice[2]>> \/ apc = "done"

C12_Witness ==
    /\ Len(delays) = 3
    /\ ~is_last_reroll
    /\ dice = <<4, 6, 2>>
    /\ delays[3] = 2000

\* the frames of phase 1, one for each cosmetic draw; no die enters them
SpinAllFrames == {spin_all_frame(c) : c \in SpinDraws(3)}

\* the rolls that show the same first n dice as the roll being revealed
Agreeing(n) == {SubSeq(dice, 1, n) \o t : t \in [1..(3 - n) -> Faces]}

\* with dice 0..i-1 confirmed, the delay before die i, every spinning frame
\* and the frame confirming die i are those of any roll o that agrees on the
\* dice they may show
NoLeakAt(i) ==
    \A o \in Agreeing(i) :
        /\ confirm_delays(i, o[i + 1], SubSeq(o, 1, i), is_last_reroll)
              = confirm_delays(i, dice[i + 1], SubSeq(dice, 1, i), is_last_reroll)
        /\ \A c \in SpinDraws(3 - i) :
              spin_frame(o[i + 1], SubSeq(o, 1, i), c)
                  = spin_frame(dice[i + 1], SubSeq(dice, 1, i), c)
        /\ o[i + 1] = dice[i + 1] =>
              confirm_frame(o[i + 1], SubSeq(o, 1, i))
                  = confirm_frame(dice[i + 1], SubSeq(dice, 1, i))

\* C13: every frame written and every delay chosen before die k is confirmed
\* is the one the animation writes or chooses, with the same random draws,
\* for any other roll with the same dice 0..k-1, and the frame confirming die
\* k depends on dice 0..k only.  The delay before the third die is therefore
\* the same whatever the third die is.  The roll and the flag are fixed for
\* the whole animation, so the comparison is made when it starts; every step
\* then writes the compared frame or chooses a compared delay.
C13_NoLeak ==
    /\ [](apc = "idle" => \A i \in 0..2 : NoLeakAt(i))
    /\ [](apc \in {"choose_delay", "spin"} =>
            /\ idx = Len(confirmed_vals)
            /\ confirmed_vals = SubSeq(dice, 1, idx))
    /\ [][dice' = dice /\ is_last_reroll' = is_last_reroll]_vars
    /\ [][/\ (apc = "spin_all" /\ remaining' < remaining) =>
                frame' \in SpinAllFrames
          /\ (apc = "choose_delay" /\ apc' = "spin") =>
                /\ Len(delays') = Len(delays) + 1
                /\ delays'[Len(delays')] \in
                      confirm_delays(idx, dice[idx + 1], confirmed_vals,
                                     is_last_reroll)
                /\ frame' = frame
          /\ (apc = "spin" /\ apc' = "spin") =>
                \E c \in SpinDraws(3 - idx) :
                    frame' = spin_frame(dice[idx + 1], confirmed_vals, c)
          /\ (apc = "spin" /\ apc' # "spin") =>
                frame' = confirm_frame(dice[idx + 1], confirmed_vals)
          /\ (apc = "idle" /\ apc' # "idle") => frame' = frame
          /\ (apc = "spin_all" /\ apc' # "spin_all") => frame' = frame]_vars

C13_Witness ==
    /\ apc = "spin"
    /\ idx = 2
    /\ ~is_last_reroll
    /\ dice = <<1, 4, 4>>
    /\ delays = <<300, 300, 500>>
    /\ remaining < 500
    /\ frame = <<"01", "04", "02">>

\* what a slot confirmed at face v shows
Shown(v) == <<"01", "02", "03", "04", "05", "06">>[v]

\* C17: within one attempt no slot is confirmed during the spin-all frames;
\* dice are confirmed one at a time in index order 0, 1, 2; once slot i is
\* confirmed every later frame shows it at final_dice[i], in roll order; a
\* confirmation frame masks every slot not yet confirmed; the last frame
\* shows the three dice of the roll.
C17_FrameOrder ==
    /\ [](/\ apc \in {"idle", "spin_all"} => confirmed_vals = <<>>
          /\ Len(confirmed_vals) = idx
          /\ confirmed_vals = SubSeq(dice, 1, Len(confirmed_vals))
          /\ \A k \in 1..Len(confirmed_vals) : frame[k] = Shown(dice[k])
          /\ frame # <<>> => Len(frame) = 3
          /\ apc = "done" =>
                frame = <<Shown(dice[1]), Shown(dice[2]), Shown(dice[3])>>)
    /\ [][/\ Len(confirmed_vals') \in {Len(confirmed_vals), Len(confirmed_vals) + 1}
          /\ Len(confirmed_vals') = Len(confirmed_vals) + 1 =>
                /\ \A k \in 1..3 : k > Len(confirmed_vals') => frame'[k] = "##"
                /\ apc = "spin"
          /\ (apc = "spin_all" /\ frame' # frame) =>
                \A k \in 1..3 : frame'[k] # "##"]_vars

C17_Witness ==
    /\ apc = "choose_delay"
    /\ idx = 1
    /\ dice = <<5, 1, 3>>
    /\ frame = <<"05", "##", "##">>

-----------------------------------------------------------------------------
(* Properties of the tension predicate, checked under SpecTense *)

AutoResolving == {HIFUMI} \cup AutoWinRoles

\* C18: on a non-final attempt with two dice fixed, the situation is tense
\* exactly when some third face makes the roll HIFUMI, SHIGORO, PINZORO or
\* ARASHI; with fewer than two dice fixed it is not tense.
C18_TenseIffReachable ==
    (apc = "evaluated" /\ ~is_last_reroll) =>
        IF Len(confirmed_vals) = 2
        THEN tense = (\E d2 \in Faces :
                        DiceResult(Append(confirmed_vals, d2)).role \in AutoResolving)
        ELSE tense = FALSE

C18_Witness ==
    /\ apc = "evaluated"
    /\ ~is_last_reroll
    /\ confirmed_vals = <<3, 1>>
    /\ tense

\* resolve_round was called and went as far as the value comparison
BeatsReached == DealerFinished /\ reaches_beats(player_result, dealer_result)

\* C21: the dealer is rolled in a round exactly when the player's final
\* result is ME, and resolve_round reaches DiceResult.beats only with a
\* player ME and a dealer ME: never with HIFUMI, SHIGORO, PINZORO, ARASHI,
\* MENASHI or an exhausted side.
C21_CompareOnlyMe ==
    /\ (SideLog("dealer") # <<>> \/ pc \in {"dealer_roll", "dealer_anim", "resolve"}) =>
          player_result.role = ME
    /\ RoundResolved => ((SideLog("dealer") # <<>>) <=> (player_result.role = ME))
    /\ BeatsReached =>
          /\ player_result \in AllResults /\ player_result.role = ME
          /\ dealer_result \in AllResults /\ dealer_result.role = ME
    /\ (RoundResolved /\ ~BeatsReached) =>
          \/ player_result = NoResult
          \/ player_result.role \in {HIFUMI} \cup AutoWinRoles
          \/ dealer_result = NoResult
          \/ dealer_result.role \in {HIFUMI} \cup AutoWinRoles

C21_Witness ==
    /\ RoundResolved
    /\ BeatsReached
    /\ player_result.role = ME
    /\ dealer_result.role = ME
    /\ player_result.value < dealer_result.value
    /\ payout = -bet

====
